---- MODULE Spec2Model ----
(***************************************************************************)
(* CommAI speaking practice: the transcript scorer of App.jsx              *)
(* (generateSuggestions), the extended analysis of PracticeDemoPro         *)
(* (analyzeTranscript) and the two recording / history flows.              *)
(*                                                                         *)
(* A text is a sequence of one-character strings, so that the regular      *)
(* expressions, split, includes, trim and substring of the source are      *)
(* computed character by character.                                        *)
(***************************************************************************)
EXTENDS Integers, Sequences, FiniteSets, TLC

(* ------------------------------------------------------------------ *)
(* Bounds of the model                                                 *)
(* ------------------------------------------------------------------ *)
MaxLen == 4
MaxRep == 3
MaxSessions == 2
MaxResults == 2
MaxTimer == 1
MaxCalls == 2
MaxAlerts == 1

(* ------------------------------------------------------------------ *)
(* Program constants                                                   *)
(* ------------------------------------------------------------------ *)
InitialScore == 10
MinTokens == 15
MinDuration == 30
HeavyCount == 3

(* ------------------------------------------------------------------ *)
(* Characters                                                          *)
(* ------------------------------------------------------------------ *)
LowerLetters ==
  {"a", "b", "c", "d", "e", "g", "h", "i", "k", "l", "m", "n", "o",
   "r", "s", "t", "u", "w", "x", "y"}

UpperLetters == {"U", "M"}

\* \w of a JavaScript regular expression, restricted to the letters in use
IsWordChar(c) == c \in LowerLetters \cup UpperLetters

\* \s of a JavaScript regular expression, restricted to space and tab
IsSpace(c) == c \in {" ", "\t"}

\* one character of String.prototype.toLowerCase / of the i flag
LowerChar(c) == IF c = "U" THEN "u" ELSE IF c = "M" THEN "m" ELSE c

toLowerCase(s) == [i \in 1..Len(s) |-> LowerChar(s[i])]

\* s occurs in text at position i, compared character by character
OccursAt(text, s, i) ==
  /\ i >= 1
  /\ i + Len(s) - 1 <= Len(text)
  /\ \A k \in 1..Len(s) : text[i + k - 1] = s[k]

\* String.prototype.includes
includes(text, s) == \E i \in 1..(Len(text) + 1) : OccursAt(text, s, i)

\* /[.?!]/.test(text)
HasTerminal(text) == \E i \in 1..Len(text) : text[i] \in {".", "?", "!"}

\* \b at the position in front of character p (p = Len+1: the end)
IsWordBoundary(text, p) ==
  LET before == p > 1 /\ IsWordChar(text[p - 1])
      after == p <= Len(text) /\ IsWordChar(text[p])
  IN  before # after

\* /\bword\b/i matches at position i
MatchesAt(text, word, i) ==
  /\ i + Len(word) - 1 <= Len(text)
  /\ IsWordBoundary(text, i)
  /\ \A k \in 1..Len(word) : LowerChar(text[i + k - 1]) = LowerChar(word[k])
  /\ IsWordBoundary(text, i + Len(word))

\* the least element of a non-empty set of positions
Least(ps) == CHOOSE p \in ps : \A q \in ps : p <= q

\* (text.match(/\bword\b/gi) || []).length: the global search finds the
\* leftmost match at or behind position i and resumes behind it
RECURSIVE MatchScan(_, _, _)
MatchScan(text, word, i) ==
  LET found == {p \in i..Len(text) : MatchesAt(text, word, p)}
  IN  IF found = {} THEN 0
      ELSE 1 + MatchScan(text, word, Least(found) + Len(word))

MatchCount(text, word) == MatchScan(text, word, 1)

\* text.split(" "): the pieces between single space characters, from
\* position i on
RECURSIVE SplitSpaceFrom(_, _)
SplitSpaceFrom(text, i) ==
  LET spaces == {p \in i..Len(text) : text[p] = " "}
  IN  IF spaces = {} THEN <<SubSeq(text, i, Len(text))>>
      ELSE <<SubSeq(text, i, Least(spaces) - 1)>>
             \o SplitSpaceFrom(text, Least(spaces) + 1)

SplitSpace(text) == SplitSpaceFrom(text, 1)

\* text.split(/\s+/): the pieces between maximal runs of whitespace, from
\* position i on
RECURSIVE SplitWsFrom(_, _)
SplitWsFrom(text, i) ==
  LET blanks == {p \in i..Len(text) : IsSpace(text[p])}
  IN  IF blanks = {} THEN <<SubSeq(text, i, Len(text))>>
      ELSE LET first == Least(blanks)
               after == {p \in first..(Len(text) + 1) :
                           p = Len(text) + 1 \/ ~IsSpace(text[p])}
           IN  <<SubSeq(text, i, first - 1)>>
                 \o SplitWsFrom(text, Least(after))

SplitWs(text) == SplitWsFrom(text, 1)

(* ------------------------------------------------------------------ *)
(* App.jsx: generateSuggestions                                        *)
(* ------------------------------------------------------------------ *)
\* the vocabulary in alphabetical order
fillerWordsSorted ==
  << <<"a", "c", "t", "u", "a", "l", "l", "y">>,
     <<"b", "a", "s", "i", "c", "a", "l", "l", "y">>,
     <<"l", "i", "k", "e">>,
     <<"l", "i", "t", "e", "r", "a", "l", "l", "y">>,
     <<"u", "h">>,
     <<"u", "m">>,
     <<"y", "o", "u", " ", "k", "n", "o", "w">> >>

fillerWords ==
  << <<"u", "h">>,
     <<"u", "m">>,
     <<"l", "i", "k", "e">>,
     <<"y", "o", "u", " ", "k", "n", "o", "w">>,
     <<"a", "c", "t", "u", "a", "l", "l", "y">>,
     <<"b", "a", "s", "i", "c", "a", "l", "l", "y">>,
     <<"l", "i", "t", "e", "r", "a", "l", "l", "y">> >>

good == <<"g", "o", "o", "d">>

FillerMsg(word, count) == [msg |-> "filler", word |-> word, count |-> count]
LengthMsg == [msg |-> "length"]
EndingMsg == [msg |-> "ending"]
VocabularyMsg == [msg |-> "vocabulary"]
DurationMsg == [msg |-> "duration"]
AffirmationMsg == [msg |-> "affirmation"]

\* a deduction that takes a count of exactly three for a light one
FillerDeductionStrict(count) == IF count > HeavyCount THEN 2 ELSE 1

\* the deduction of one filler word that occurs count times
FillerDeduction(count) == IF count >= HeavyCount THEN 2 ELSE 1

\* fillerWords.forEach(...), from the i-th word on
RECURSIVE FillerPass(_, _, _)
FillerPass(text, i, acc) ==
  IF i > Len(fillerWords) THEN acc
  ELSE LET word == fillerWords[i]
           count == MatchCount(text, word)
       IN  IF count > 0
           THEN FillerPass(text, i + 1,
                  [fillerStats |-> acc.fillerStats @@ (word :> count),
                   feedback |-> Append(acc.feedback, FillerMsg(word, count)),
                   score |-> acc.score - FillerDeduction(count)])
           ELSE FillerPass(text, i + 1, acc)

LengthCheck(text, acc) ==
  IF Len(SplitSpace(text)) < MinTokens
  THEN [acc EXCEPT !.feedback = Append(@, LengthMsg), !.score = @ - 2]
  ELSE acc

EndingCheck(text, acc) ==
  IF ~HasTerminal(text)
  THEN [acc EXCEPT !.feedback = Append(@, EndingMsg), !.score = @ - 1]
  ELSE acc

\* a vocabulary tip that is never shown
VocabularyTipSilent(text, acc) == acc

VocabularyTip(text, acc) ==
  IF includes(text, good)
  THEN [acc EXCEPT !.feedback = Append(@, VocabularyMsg)]
  ELSE acc

DurationCheck(duration, acc) ==
  IF duration < MinDuration
  THEN [acc EXCEPT !.feedback = Append(@, DurationMsg), !.score = @ - 1]
  ELSE acc

Fallback(acc) ==
  IF Len(acc.feedback) = 0
  THEN [acc EXCEPT !.feedback = Append(@, AffirmationMsg)]
  ELSE acc

\* a score without its floor
ClampScoreNoFloor(acc) == acc

ClampScore(acc) == IF acc.score < 0 THEN [acc EXCEPT !.score = 0] ELSE acc

generateSuggestions(text, duration) ==
  LET start == [fillerStats |-> [w \in {} |-> 0],
                feedback |-> <<>>,
                score |-> InitialScore]
      a1 == FillerPass(text, 1, start)
      a2 == LengthCheck(text, a1)
      a3 == EndingCheck(text, a2)
      a4 == VocabularyTip(text, a3)
      a5 == DurationCheck(duration, a4)
      a6 == Fallback(a5)
  IN  ClampScore(a6)

(* ------------------------------------------------------------------ *)
(* PracticeDemoPro: the synchronous part of analyzeTranscript          *)
(* ------------------------------------------------------------------ *)
proFillerWords ==
  { <<"u", "h">>,
    <<"u", "m">>,
    <<"l", "i", "k", "e">>,
    <<"y", "o", "u", " ", "k", "n", "o", "w">>,
    <<"a", "c", "t", "u", "a", "l", "l", "y">> }

FillerLimit == 5
ShortWords == 10
RepeatLimit == 3
RepeatLen == 3
ConfidentWords == 15
TonePerFiller == 10

\* words.forEach(w => fillerWords.includes(w.toLowerCase()) && fillerCount++)
CountFillers(words) ==
  Cardinality({i \in 1..Len(words) : toLowerCase(words[i]) \in proFillerWords})

\* wordFrequency[lw]
WordFrequency(words, lw) ==
  Cardinality({i \in 1..Len(words) : toLowerCase(words[i]) = lw})

\* the keys of wordFrequency in insertion order (Object.entries)
RECURSIVE FrequencyKeys(_, _)
FrequencyKeys(words, i) ==
  IF i > Len(words) THEN <<>>
  ELSE IF \E j \in 1..(i - 1) : toLowerCase(words[j]) = toLowerCase(words[i])
       THEN FrequencyKeys(words, i + 1)
       ELSE <<toLowerCase(words[i])>> \o FrequencyKeys(words, i + 1)

IsRepeated(words, w) ==
  WordFrequency(words, w) > RepeatLimit /\ Len(w) > RepeatLen

RepeatedWords(words) ==
  LET keys == FrequencyKeys(words, 1)
      Keep(w) == IsRepeated(words, w)
  IN  SelectSeq(keys, Keep)

FluencyScore(fillerCount, words, repeatedWords) ==
  LET s0 == InitialScore
      s1 == IF fillerCount > FillerLimit THEN s0 - 2 ELSE s0
      s2 == IF Len(words) < ShortWords THEN s1 - 2 ELSE s1
      s3 == IF Len(repeatedWords) > 0 THEN s2 - 1 ELSE s2
  IN  IF s3 < 0 THEN 0 ELSE s3

\* a tone that is confident from ConfidentWords words on
ToneAtLeast(fillerCount, words) ==
  IF TonePerFiller * fillerCount > Len(words) THEN "Hesitant"
  ELSE IF Len(words) >= ConfidentWords THEN "Confident"
  ELSE "Neutral"

\* fillerCount > words.length * 0.1, in integers: the double 0.1 lies above
\* 1/10 by less than one part in 10^16, so the rounded product is at least
\* words.length / 10 and far below the next integer above it
Tone(fillerCount, words) ==
  IF TonePerFiller * fillerCount > Len(words) THEN "Hesitant"
  ELSE IF Len(words) > ConfidentWords THEN "Confident"
  ELSE "Neutral"

\* the report of analyzeTranscript for given grammar suggestions
BuildReport(transcript, grammarSuggestions) ==
  LET words == SplitWs(transcript)
      fillerCount == CountFillers(words)
      repeatedWords == RepeatedWords(words)
  IN  [fillerCount |-> fillerCount,
       repeatedWords |-> repeatedWords,
       grammarSuggestions |-> grammarSuggestions,
       fluencyScore |-> FluencyScore(fillerCount, words, repeatedWords),
       tone |-> Tone(fillerCount, words)]

(* ------------------------------------------------------------------ *)
(* Input texts of the scorer                                           *)
(* ------------------------------------------------------------------ *)
ShortAlphabet == {"u", "m", "U", " ", "."}

ShortTexts == UNION {[1..n -> ShortAlphabet] : n \in 0..MaxLen}

PadWord == <<"t", "a", "l", "k">>

Separators == { <<" ">>, <<" ", " ">>, <<"\t">> }

Endings == { <<>>, <<".">> }

PadCounts == {0, ShortWords - 1, MinTokens - 1, MinTokens}

Repeat(word, n) == [i \in 1..n |-> word]

RECURSIVE Join(_, _)
Join(ws, sep) ==
  IF Len(ws) = 0 THEN <<>>
  ELSE IF Len(ws) = 1 THEN ws[1]
  ELSE ws[1] \o sep \o Join(Tail(ws), sep)

\* two filler words of the vocabulary in either order, each repeated, and
\* nothing else
FillerTexts ==
  { Join(Repeat(fillerWords[p[1]], p[2]) \o Repeat(fillerWords[p[3]], p[4]),
         sep) \o end :
      p \in { q \in (1..Len(fillerWords)) \X (0..MaxRep)
                     \X (1..Len(fillerWords)) \X (0..MaxRep) : q[1] # q[3] },
      sep \in Separators,
      end \in Endings }

\* one repeated filler word, then padding words, then possibly "good"
PaddedTexts ==
  { Join(Repeat(fillerWords[p[1]], p[2]) \o Repeat(PadWord, p[3])
           \o (IF p[4] THEN <<good>> ELSE <<>>), sep) \o end :
      p \in (1..Len(fillerWords)) \X (0..MaxRep)
              \X (PadCounts \ {0}) \X BOOLEAN,
      sep \in Separators,
      end \in Endings }

\* every filler word of the vocabulary MaxRep times
RECURSIVE AllFillerWords(_)
AllFillerWords(i) ==
  IF i > Len(fillerWords) THEN <<>>
  ELSE Repeat(fillerWords[i], MaxRep) \o AllFillerWords(i + 1)

WorstTexts ==
  { Join(AllFillerWords(1), sep) \o end : sep \in Separators, end \in Endings }

ComposedTexts == FillerTexts \cup PaddedTexts \cup WorstTexts

Texts == ShortTexts \cup ComposedTexts

Durations == {MinDuration - 1, MinDuration}

(* ------------------------------------------------------------------ *)
(* State                                                               *)
(* ------------------------------------------------------------------ *)
VARIABLES
  flow,            \* "score": the scorer alone; "app": App.jsx; "pro": PracticeDemoPro
  inText,          \* scorer: the text under analysis
  inDuration,      \* scorer: the duration under analysis
  scorePc,         \* scorer: "input", "generated" or "analysed"
  result,          \* scorer: what the applied function returned
  supported,       \* whether window offers a speech recognition constructor
  alerts,          \* the number of alert() boxes shown
  isRecording,     \* useState(false), both components
  transcript,      \* useState(""), both components
  recognition,     \* the object behind recognitionRef.current
  sessionHistory,  \* App.jsx: useState([])
  suggestions,     \* App.jsx: useState([])
  timer,           \* App.jsx: useState(0)
  timerRef,        \* App.jsx: timerRef.current, 0 for null
  intervals,       \* App.jsx: the intervals set and not yet cleared
  feedback,        \* PracticeDemoPro: useState(null)
  history,         \* PracticeDemoPro: useState([])
  calls,           \* PracticeDemoPro: the analyzeTranscript invocations in flight
  consoleLog,      \* PracticeDemoPro: the number of "Grammar API failed" lines logged
  now              \* the clock: the number of session records created so far

scoreVars == <<inText, inDuration, scorePc, result>>

envVars == <<supported, alerts>>

uiVars == <<isRecording, transcript, recognition>>

appVars == <<sessionHistory, suggestions, timer, timerRef, intervals>>

proVars == <<feedback, history, calls, consoleLog>>

vars ==
  <<flow, inText, inDuration, scorePc, result, supported, alerts,
    isRecording, transcript, recognition, sessionHistory, suggestions, timer, timerRef, intervals,
    feedback, history, calls, consoleLog, now>>

NoResult == [none |-> TRUE]

\* feedback === null
Null == [none |-> TRUE]

\* recognitionRef.current === null
NoRecognition == [state |-> "null", results |-> <<>>]

ScoreIdle ==
  /\ inText = <<>>
  /\ inDuration = 0
  /\ scorePc = "idle"
  /\ result = NoResult

\* the state of both components after their first render
UiInit ==
  /\ alerts = 0
  /\ isRecording = FALSE
  /\ transcript = <<>>
  /\ recognition = NoRecognition
  /\ sessionHistory = <<>>
  /\ suggestions = <<>>
  /\ timer = 0
  /\ timerRef = 0
  /\ intervals = {}
  /\ feedback = Null
  /\ history = <<>>
  /\ calls = {}
  /\ consoleLog = 0
  /\ now = 0

(* ------------------------------------------------------------------ *)
(* The scorer applied to one input                                     *)
(* ------------------------------------------------------------------ *)
ScoreInit ==
  /\ flow = "score"
  /\ inText \in Texts
  /\ inDuration \in Durations
  /\ scorePc = "input"
  /\ result = NoResult
  /\ supported = TRUE
  /\ UiInit

ApplyGenerate ==
  /\ flow = "score"
  /\ scorePc = "input"
  /\ scorePc' = "generated"
  /\ result' = generateSuggestions(inText, inDuration)
  /\ UNCHANGED <<flow, inText, inDuration, envVars, uiVars, appVars, proVars,
                 now>>

\* analyzeTranscript returns at once on an empty transcript
ApplyAnalyze ==
  /\ flow = "score"
  /\ scorePc = "input"
  /\ inText # <<>>
  /\ scorePc' = "analysed"
  /\ result' = BuildReport(inText, <<>>)
  /\ UNCHANGED <<flow, inText, inDuration, envVars, uiVars, appVars, proVars,
                 now>>

ScoreNext == ApplyGenerate \/ ApplyAnalyze

SpecScore == ScoreInit /\ [][ScoreNext]_vars

(* ------------------------------------------------------------------ *)
(* Speech recognition, as both components use it                       *)
(* ------------------------------------------------------------------ *)
\* the transcripts of single recognition results
Fragments == { <<"u", "m">>, <<" ", "u", "m">> }

Listening(state) == state \in {"listening", "stopping"}

\* new webkitSpeechRecognition(), started
NewRecognition == [state |-> "listening", results |-> <<>>]

\* a recognition that has ended delivers nothing any more
EndRecognition == [state |-> "ended", results |-> <<>>]

\* recognition.stop(): results still pending are delivered, then it ends
StopRecognition(r) ==
  IF r.state = "listening" THEN [r EXCEPT !.state = "stopping"] ELSE r

\* A new recognition replaces the one before it: results that a replaced
\* recognition would still deliver are left out.

\* The result lists a recognition can report next, each with the index of
\* its first changed result (event.resultIndex, counted from 1 here): a new
\* result behind a final one, or a new version of the last, interim one.
\* Without interimResults every result is final.
ResultEvents(r, interim) ==
  LET n == Len(r.results)
      finals == IF interim THEN BOOLEAN ELSE {TRUE}
      added ==
        IF n < MaxResults /\ (n = 0 \/ r.results[n].isFinal)
        THEN { [resultIndex |-> n + 1,
                results |-> Append(r.results,
                                   [transcript |-> f, isFinal |-> fin])] :
                 f \in Fragments, fin \in finals }
        ELSE {}
      revised ==
        IF n > 0 /\ ~r.results[n].isFinal
        THEN { [resultIndex |-> n,
                results |-> [r.results EXCEPT
                               ![n] = [transcript |-> f, isFinal |-> fin]]] :
                 f \in Fragments, fin \in finals }
        ELSE {}
  IN  added \cup revised

\* String.prototype.trim
Trim(text) ==
  LET solid == {p \in 1..Len(text) : ~IsSpace(text[p])}
  IN  IF solid = {} THEN <<>>
      ELSE SubSeq(text, Least(solid),
                  CHOOSE p \in solid : \A q \in solid : q <= p)

(* ------------------------------------------------------------------ *)
(* App.jsx: SpeakingPractice                                           *)
(* ------------------------------------------------------------------ *)
\* for (i = event.resultIndex; ...) text += event.results[i][0].transcript
RECURSIVE AppEventText(_, _)
AppEventText(results, i) ==
  IF i > Len(results) THEN <<>>
  ELSE results[i].transcript \o AppEventText(results, i + 1)

\* the record put behind the earlier ones
PutRecordLast(prev, record) == Append(prev, record)

\* [record, ...prev]
PutRecord(prev, record) == <<record>> \o prev

\* the Start Recording button, shown while isRecording is false
startRecording ==
  /\ flow = "app"
  /\ ~isRecording
  /\ IF ~supported
     THEN /\ alerts < MaxAlerts
          /\ alerts' = alerts + 1
          /\ UNCHANGED <<uiVars, appVars>>
     ELSE /\ now < MaxSessions
          /\ recognition' = NewRecognition
          /\ isRecording' = TRUE
          /\ timer' = 0
          /\ timerRef' = now + 1
          /\ intervals' = intervals \cup {now + 1}
          /\ UNCHANGED <<alerts, transcript, sessionHistory, suggestions>>
  /\ UNCHANGED <<flow, scoreVars, supported, proVars, now>>

\* recognition.onresult of App.jsx
AppOnResult ==
  /\ flow = "app"
  /\ Listening(recognition.state)
  /\ \E e \in ResultEvents(recognition, TRUE) :
       /\ recognition' = [recognition EXCEPT !.results = e.results]
       /\ transcript' = AppEventText(e.results, e.resultIndex)
  /\ UNCHANGED <<flow, scoreVars, envVars, isRecording, appVars, proVars, now>>

\* the callback of setInterval
Tick ==
  /\ flow = "app"
  /\ intervals # {}
  /\ timer < MaxTimer
  /\ timer' = timer + 1
  /\ UNCHANGED <<flow, scoreVars, envVars, uiVars, sessionHistory, suggestions,
                 timerRef, intervals, proVars, now>>

\* a clearInterval that leaves the interval running
clearIntervalNoop(ivs, id) == ivs

\* clearInterval(id) on the running intervals
clearInterval(ivs, id) == ivs \ {id}

\* the Stop Recording button, shown while isRecording is true; the field
\* created is the order of creation, which the source does not store
stopRecording ==
  /\ flow = "app"
  /\ isRecording
  /\ LET newSuggestions == generateSuggestions(transcript, timer)
         record == [text |-> transcript,
                    duration |-> timer,
                    feedback |-> newSuggestions.feedback,
                    score |-> newSuggestions.score,
                    fillerStats |-> newSuggestions.fillerStats,
                    created |-> now + 1]
     IN  /\ suggestions' = newSuggestions.feedback
         /\ sessionHistory' = PutRecord(sessionHistory, record)
  /\ recognition' = StopRecognition(recognition)
  /\ intervals' = clearInterval(intervals, timerRef)
  /\ isRecording' = FALSE
  /\ now' = now + 1
  /\ UNCHANGED <<flow, scoreVars, envVars, transcript, timer, timerRef, proVars>>

\* a stopped recognition has delivered its last result
RecognitionEnd ==
  /\ flow \in {"app", "pro"}
  /\ recognition.state = "stopping"
  /\ recognition' = EndRecognition
  /\ UNCHANGED <<flow, scoreVars, envVars, isRecording, transcript, appVars,
                 proVars, now>>

\* the recognition of App.jsx fails: App.jsx sets no onerror handler
AppRecognitionError ==
  /\ flow = "app"
  /\ Listening(recognition.state)
  /\ recognition' = EndRecognition
  /\ UNCHANGED <<flow, scoreVars, envVars, isRecording, transcript, appVars,
                 proVars, now>>

AppNext ==
  \/ startRecording
  \/ AppOnResult
  \/ Tick
  \/ stopRecording
  \/ AppRecognitionError

(* ------------------------------------------------------------------ *)
(* PracticeDemoPro                                                     *)
(* ------------------------------------------------------------------ *)
\* for (i = event.resultIndex; ...) text += event.results[i][0].transcript + " "
RECURSIVE ProEventText(_, _)
ProEventText(results, i) ==
  IF i > Len(results) THEN <<>>
  ELSE results[i].transcript \o <<" ">> \o ProEventText(results, i + 1)

\* an initRecognition that does not look for the constructor
initRecognitionUnchecked == NewRecognition

\* what initRecognition returns: null, behind an alert, when window has no
\* speech recognition constructor, and a new recognition otherwise
initRecognition == IF supported THEN NewRecognition ELSE NoRecognition

\* the record button: starts a recognition if initRecognition returns one,
\* or stops the running one
toggleRecording ==
  /\ flow = "pro"
  /\ IF ~isRecording
     THEN /\ recognition' = initRecognition
          /\ IF initRecognition = NoRecognition
             THEN /\ alerts < MaxAlerts
                  /\ alerts' = alerts + 1
                  /\ UNCHANGED isRecording
             ELSE /\ isRecording' = TRUE
                  /\ UNCHANGED alerts
     ELSE /\ recognition' = StopRecognition(recognition)
          /\ isRecording' = FALSE
          /\ UNCHANGED alerts
  /\ UNCHANGED <<flow, scoreVars, supported, transcript, appVars, proVars,
                 now>>

\* recognition.onresult of PracticeDemoPro
ProOnResult ==
  /\ flow = "pro"
  /\ Listening(recognition.state)
  /\ \E e \in ResultEvents(recognition, FALSE) :
       /\ recognition' = [recognition EXCEPT !.results = e.results]
       /\ transcript' = Trim(ProEventText(e.results, e.resultIndex))
  /\ UNCHANGED <<flow, scoreVars, envVars, isRecording, appVars, proVars, now>>

\* recognition.onerror of PracticeDemoPro
onerror ==
  /\ flow = "pro"
  /\ Listening(recognition.state)
  /\ recognition' = EndRecognition
  /\ isRecording' = FALSE
  /\ UNCHANGED <<flow, scoreVars, envVars, transcript, appVars, proVars, now>>

\* the matches the grammar service can return
Placeholder == "-"

FullMatch ==
  [offset |-> 0, length |-> 2, message |-> "m",
   hasReplacements |-> TRUE, replacements |-> <<[value |-> "fix"]>>]

EmptyMatch ==
  [offset |-> 0, length |-> 2, message |-> "m",
   hasReplacements |-> TRUE, replacements |-> <<>>]

BareMatch ==
  [offset |-> 0, length |-> 2, message |-> "m",
   hasReplacements |-> FALSE, replacements |-> <<>>]

\* the parsed response bodies: without a list of matches, or with one
NoBody == [hasMatches |-> FALSE, matches |-> <<>>]

Bodies ==
  {NoBody}
    \cup { [hasMatches |-> TRUE, matches |-> ms] :
             ms \in { <<>>, <<FullMatch>>, <<EmptyMatch>>, <<BareMatch>>,
                      <<FullMatch, EmptyMatch>>, <<FullMatch, BareMatch>> } }

\* transcript.substring(start, end), for 0 <= start <= end
substring(text, start, end) ==
  SubSeq(text, (IF start > Len(text) THEN Len(text) ELSE start) + 1,
         IF end > Len(text) THEN Len(text) ELSE end)

\* the entry data.matches.map builds for one match that has replacements
Suggestion(text, m) ==
  [error |-> substring(text, m.offset, m.offset + m.length),
   suggestion |-> IF Len(m.replacements) > 0
                  THEN m.replacements[1].value
                  ELSE Placeholder,
   message |-> m.message]

\* The try block of analyzeTranscript throws into its catch block when the
\* fetch is rejected, when res.json() is rejected, when data.matches is
\* undefined and when m.replacements is undefined for some match.
TryThrows(call) ==
  \/ call.net = "rejected"
  \/ ~call.data.hasMatches
  \/ \E k \in 1..Len(call.data.matches) :
       ~call.data.matches[k].hasReplacements

\* a catch block that reports the failure as a suggestion
TryGrammarReporting(call) ==
  IF TryThrows(call)
  THEN <<[error |-> <<>>, suggestion |-> Placeholder, message |-> "failed"]>>
  ELSE [k \in 1..Len(call.data.matches) |->
          Suggestion(call.transcript, call.data.matches[k])]

\* grammarSuggestions behind the try block: the mapped matches, or the
\* initial empty list when the block threw
TryGrammar(call) ==
  IF TryThrows(call) THEN <<>>
  ELSE [k \in 1..Len(call.data.matches) |->
          Suggestion(call.transcript, call.data.matches[k])]

\* the Analyze button, enabled while the transcript is not empty: the part
\* of analyzeTranscript in front of the first await
analyzeTranscript ==
  /\ flow = "pro"
  /\ transcript # <<>>
  /\ Cardinality(calls) < MaxCalls
  /\ now + Cardinality(calls) < MaxSessions
  /\ calls' = calls \cup
       { [id |-> now + Cardinality(calls) + 1,
          transcript |-> transcript,
          history |-> history,
          stage |-> "fetch",
          net |-> "pending",
          data |-> NoBody] }
  /\ UNCHANGED <<flow, scoreVars, envVars, uiVars, appVars, feedback, history,
                 consoleLog, now>>

\* the grammar service answers the request, or the request fails
FetchRespond(call) ==
  /\ call.stage = "fetch"
  /\ call.net = "pending"
  /\ \E outcome \in {"resolved", "rejected"} :
       calls' = (calls \ {call}) \cup {[call EXCEPT !.net = outcome]}
  /\ UNCHANGED <<flow, scoreVars, envVars, uiVars, appVars, feedback, history,
                 consoleLog, now>>

\* the response body is read and parsed, or cannot be parsed
BodyArrive(call) ==
  /\ call.stage = "json"
  /\ call.net = "pending"
  /\ \/ \E body \in Bodies :
          calls' = (calls \ {call})
                     \cup {[call EXCEPT !.net = "resolved", !.data = body]}
     \/ calls' = (calls \ {call}) \cup {[call EXCEPT !.net = "rejected"]}
  /\ UNCHANGED <<flow, scoreVars, envVars, uiVars, appVars, feedback, history,
                 consoleLog, now>>

\* a completion that displays the report only of the latest invocation
CompleteLatestOnly(call) ==
  LET report == BuildReport(call.transcript, TryGrammar(call))
  IN  /\ feedback' = (IF \E other \in calls : other.id > call.id
                      THEN feedback ELSE report)
      /\ history' = Append(call.history,
                           [text |-> call.transcript,
                            feedback |-> report,
                            time |-> now + 1])
      /\ transcript' = <<>>
      /\ calls' = calls \ {call}
      /\ consoleLog' = consoleLog + (IF TryThrows(call) THEN 1 ELSE 0)
      /\ now' = now + 1
      /\ UNCHANGED <<flow, scoreVars, envVars, isRecording, recognition, appVars>>

\* analyzeTranscript behind its try block: the report, setFeedback,
\* setHistory with the history of the render that started the call, and
\* setTranscript("")
Complete(call) ==
  LET report == BuildReport(call.transcript, TryGrammar(call))
  IN  /\ feedback' = report
      /\ history' = Append(call.history,
                           [text |-> call.transcript,
                            feedback |-> report,
                            time |-> now + 1])
      /\ transcript' = <<>>
      /\ calls' = calls \ {call}
      /\ consoleLog' = consoleLog + (IF TryThrows(call) THEN 1 ELSE 0)
      /\ now' = now + 1
      /\ UNCHANGED <<flow, scoreVars, envVars, isRecording, recognition, appVars>>

\* analyzeTranscript resumes behind await fetch(...)
AfterFetch(call) ==
  /\ call.stage = "fetch"
  /\ call.net # "pending"
  /\ IF call.net = "resolved"
     THEN /\ calls' = (calls \ {call})
                        \cup {[call EXCEPT !.stage = "json",
                                           !.net = "pending"]}
          /\ UNCHANGED <<flow, scoreVars, envVars, uiVars, appVars, feedback, history,
                         consoleLog, now>>
     ELSE Complete(call)

\* analyzeTranscript resumes behind await res.json()
AfterJson(call) ==
  /\ call.stage = "json"
  /\ call.net # "pending"
  /\ Complete(call)

\* the steps of the grammar service
Service == \E call \in calls : FetchRespond(call) \/ BodyArrive(call)

\* the steps that resume analyzeTranscript behind an await
Resume == \E call \in calls : AfterFetch(call) \/ AfterJson(call)

ProNext ==
  \/ toggleRecording
  \/ ProOnResult
  \/ onerror
  \/ analyzeTranscript
  \/ \E call \in calls : FetchRespond(call)
  \/ \E call \in calls : BodyArrive(call)
  \/ \E call \in calls : AfterFetch(call)
  \/ \E call \in calls : AfterJson(call)

(* ------------------------------------------------------------------ *)
(* The two components                                                  *)
(* ------------------------------------------------------------------ *)
Init ==
  /\ flow \in {"app", "pro"}
  /\ supported \in BOOLEAN
  /\ ScoreIdle
  /\ UiInit

Next == AppNext \/ ProNext \/ RecognitionEnd

Spec == Init /\ [][Next]_vars

\* the continuation of an await runs once its promise is settled; nothing
\* makes the grammar service answer
FairSpec == Spec /\ WF_vars(Resume)

(* ------------------------------------------------------------------ *)
(* Properties of the scorer                                            *)
(* ------------------------------------------------------------------ *)
Generated == flow = "score" /\ scorePc = "generated"

Analysed == flow = "score" /\ scorePc = "analysed"

\* the whole-word, case-insensitive occurrences of word in text, counted
\* position by position
Occurrences(text, word) ==
  Cardinality({p \in 1..Len(text) : MatchesAt(text, word, p)})

\* the tokens of text: its maximal runs of characters that are not whitespace
TokenCount(text) ==
  Cardinality({p \in 1..Len(text) :
                 ~IsSpace(text[p]) /\ (p = 1 \/ IsSpace(text[p - 1]))})

Has(fb, m) == \E k \in 1..Len(fb) : fb[k] = m

\* C1: the score of generateSuggestions and the fluencyScore of
\* analyzeTranscript are integers between 0 and 10, for every text and
\* duration, also when every deduction fires.
C1_ScoreInRange ==
  /\ Generated => result.score \in 0..InitialScore
  /\ Analysed => result.fluencyScore \in 0..InitialScore

\* all seven filler words three times or more, a short text without terminal
\* punctuation and a short duration: every deduction fires, the score is 0
C1_Witness ==
  /\ Generated
  /\ \A i \in 1..Len(fillerWords) :
       Occurrences(inText, fillerWords[i]) >= HeavyCount
  /\ Has(result.feedback, LengthMsg)
  /\ Has(result.feedback, EndingMsg)
  /\ Has(result.feedback, DurationMsg)
  /\ result.score = 0

\* the conditions under which, in the words of the specification, no
\* deduction is triggered
NoDeductionCondition(text, duration) ==
  /\ \A i \in 1..Len(fillerWords) : Occurrences(text, fillerWords[i]) = 0
  /\ TokenCount(text) >= MinTokens
  /\ HasTerminal(text)
  /\ duration >= MinDuration

\* C2 as stated: the feedback is exactly the affirmation if and only if no
\* deduction-triggering condition holds, texts containing "good" included.
C2_Original ==
  Generated =>
    ((result.feedback = <<AffirmationMsg>>)
       <=> NoDeductionCondition(inText, inDuration))

\* C2 as amended: the feedback is exactly the affirmation if and only if
\* generateSuggestions applied no deduction (the score is 10) and the text
\* does not contain "good".
C2_Fallback ==
  Generated =>
    ((result.feedback = <<AffirmationMsg>>)
       <=> (result.score = InitialScore /\ ~includes(inText, good)))

C2_Witness ==
  /\ Generated
  /\ result.feedback = <<AffirmationMsg>>
  /\ TokenCount(inText) >= MinTokens

\* C3: the length message is produced exactly when the text has fewer than
\* 15 whitespace-separated tokens.
C3_Original ==
  Generated =>
    (Has(result.feedback, LengthMsg) <=> TokenCount(inText) < MinTokens)

RECURSIVE FillerDeductions(_, _)
FillerDeductions(text, i) ==
  IF i > Len(fillerWords) THEN 0
  ELSE LET c == Occurrences(text, fillerWords[i])
       IN  (IF c >= HeavyCount THEN 2 ELSE IF c > 0 THEN 1 ELSE 0)
             + FillerDeductions(text, i + 1)

OtherDeductions(fb) ==
  (IF Has(fb, LengthMsg) THEN 2 ELSE 0)
    + (IF Has(fb, EndingMsg) THEN 1 ELSE 0)
    + (IF Has(fb, DurationMsg) THEN 1 ELSE 0)

\* C4: a filler word occurring c > 0 times has the histogram entry c, one
\* message, and costs 2 points if c >= 3 and 1 point otherwise; the costs of
\* distinct filler words add up; a filler word that does not occur has no
\* entry, no message and no cost.
C4_FillerWords ==
  Generated =>
    LET fb == result.feedback
        total == FillerDeductions(inText, 1) + OtherDeductions(fb)
    IN  /\ \A i \in 1..Len(fillerWords) :
             LET word == fillerWords[i]
                 c == Occurrences(inText, word)
                 msgs == {k \in 1..Len(fb) :
                            fb[k].msg = "filler" /\ fb[k].word = word}
             IN  IF c > 0
                 THEN /\ word \in DOMAIN result.fillerStats
                      /\ result.fillerStats[word] = c
                      /\ Cardinality(msgs) = 1
                      /\ \A k \in msgs : fb[k].count = c
                 ELSE /\ word \notin DOMAIN result.fillerStats
                      /\ msgs = {}
        /\ DOMAIN result.fillerStats
             \subseteq {fillerWords[i] : i \in 1..Len(fillerWords)}
        /\ result.score
             = (IF total > InitialScore THEN 0 ELSE InitialScore - total)

\* only "um", three times, and no other deduction: the score is 8
C4_Witness ==
  /\ Generated
  /\ DOMAIN result.fillerStats = {fillerWords[2]}
  /\ result.fillerStats[fillerWords[2]] = HeavyCount
  /\ Len(result.feedback) = 1
  /\ result.score = 8

(* ------------------------------------------------------------------ *)
(* Properties of the two components                                    *)
(* ------------------------------------------------------------------ *)
\* the step completes the invocation: it runs analyzeTranscript to its end
Completes(call) == call \in calls /\ \A c \in calls' : c.id # call.id

\* the grammar call of the invocation has failed: the request was rejected,
\* the body could not be parsed, or the response has no list of matches
GrammarFailed(call) ==
  \/ call.net = "rejected"
  \/ call.stage = "json" /\ call.net = "resolved" /\ ~call.data.hasMatches

\* the invocation with a grammar call that succeeded with the given body
Succeeded(call, body) ==
  [call EXCEPT !.stage = "json", !.net = "resolved", !.data = body]

SameScores(r1, r2) ==
  /\ r1.fluencyScore = r2.fluencyScore
  /\ r1.tone = r2.tone
  /\ r1.fillerCount = r2.fillerCount
  /\ r1.repeatedWords = r2.repeatedWords

\* C5: an invocation whose grammar call failed still completes with a
\* report: its grammarSuggestions are empty, the report is displayed and
\* recorded, and its score, tone, filler count and repeated words are those
\* of a successful call.
C5_GrammarFailure ==
  [][\A call \in calls :
       (GrammarFailed(call) /\ Completes(call)) =>
         /\ feedback' # Null
         /\ feedback'.grammarSuggestions = <<>>
         /\ Len(history') > 0
         /\ history'[Len(history')].feedback = feedback'
         /\ history'[Len(history')].text = call.transcript
         /\ \A body \in Bodies :
              SameScores(feedback',
                         BuildReport(call.transcript,
                                     TryGrammar(Succeeded(call, body))))
    ]_vars

\* a failed grammar call has been logged and its report is displayed
C5_Witness ==
  /\ flow = "pro"
  /\ consoleLog > 0
  /\ feedback # Null
  /\ feedback.grammarSuggestions = <<>>
  /\ Len(history) > 0

\* C6: for a response with a list of matches, every match yields one
\* suggestion entry, and a match without replacements (no field, or an empty
\* list) yields the placeholder.
C6_Original ==
  [][\A call \in calls :
       (/\ call.stage = "json"
        /\ call.net = "resolved"
        /\ call.data.hasMatches
        /\ Completes(call)) =>
         LET ms == call.data.matches
             gs == feedback'.grammarSuggestions
         IN  /\ Len(gs) = Len(ms)
             /\ \A k \in 1..Len(ms) :
                  (~ms[k].hasReplacements \/ ms[k].replacements = <<>>)
                    => gs[k].suggestion = Placeholder
    ]_vars

InFlight(id) == \E call \in calls : call.id = id

\* C7: an analysis that has started eventually produces its report,
\* whatever the grammar service does.
C7_Original ==
  \A id \in 1..MaxSessions : InFlight(id) ~> ~InFlight(id)

\* C8: the result of an invocation that a later invocation has overtaken is
\* discarded: it sets no feedback, adds no record, clears no transcript.
C8_Original ==
  [][\A call \in calls :
       (Completes(call) /\ \E other \in calls : other.id > call.id) =>
         /\ feedback' = feedback
         /\ history' = history
         /\ transcript' = transcript
    ]_vars

\* C9: the histories only grow: every completed analysis adds one record
\* and every record stays where it is.
C9_Original ==
  [][/\ Len(history') >= Len(history)
     /\ SubSeq(history', 1, Len(history)) = history
     /\ Len(sessionHistory') >= Len(sessionHistory)
     /\ SubSeq(sessionHistory',
               Len(sessionHistory') - Len(sessionHistory) + 1,
               Len(sessionHistory')) = sessionHistory
     /\ now' # now =>
          Len(history') + Len(sessionHistory')
            = Len(history) + Len(sessionHistory) + 1
    ]_vars

Stops == flow = "app" /\ isRecording /\ ~isRecording'

\* the step is the start of analyzeTranscript: a new invocation is in flight
Analyses == flow = "pro" /\ Cardinality(calls') > Cardinality(calls)

\* C11: a transcript is scored only when every recognition result behind it
\* is final, and no analysis starts while a recording is active.
C11_Original ==
  [][/\ Stops =>
          \A k \in 1..Len(recognition.results) :
            recognition.results[k].isFinal
     /\ Analyses => ~isRecording
    ]_vars

\* C12: the transcript that is scored is the concatenation of all results
\* the running recognition has delivered: in App.jsx the text of the record
\* that stopRecording adds, in the alternate flow (which joins the results
\* with spaces) the text of the first analysis.
C12_Original ==
  [][/\ (Stops /\ recognition.state = "listening") =>
          sessionHistory'[1].text = AppEventText(recognition.results, 1)
     /\ (Analyses /\ recognition.state = "listening"
           /\ calls = {} /\ history = <<>>) =>
          \A call \in calls' :
            call.transcript = Trim(ProEventText(recognition.results, 1))
    ]_vars

\* the step is an error of the capture stream during a recording: a
\* listening recognition ends without having been stopped
CaptureFails ==
  isRecording /\ recognition.state = "listening"
    /\ recognition'.state = "ended"

\* C13: an error of the capture stream during a recording returns the
\* component to idle (isRecording false, no timer interval left running),
\* keeps the transcript, starts no analysis and adds no record.
C13_Original ==
  [][CaptureFails =>
       /\ ~isRecording'
       /\ intervals' = {}
       /\ transcript' = transcript
       /\ calls' = calls
       /\ feedback' = feedback
       /\ history' = history
       /\ suggestions' = suggestions
       /\ sessionHistory' = sessionHistory
    ]_vars

\* C14: where speech capture is unavailable, every step is a start request
\* that raises the alert and changes nothing else: isRecording stays false,
\* no recognition and no timer interval is started, and the transcript, the
\* displayed feedback and the histories are unchanged.
C14_Unavailable ==
  [][~supported =>
       /\ alerts' = alerts + 1
       /\ ~isRecording /\ ~isRecording'
       /\ recognition' = NoRecognition
       /\ intervals' = {}
       /\ UNCHANGED <<timer, timerRef, transcript, suggestions,
                      sessionHistory, feedback, history, calls>>
    ]_vars

\* the alert has been raised and nothing is recording
C14_Witness ==
  /\ ~supported
  /\ alerts > 0
  /\ ~isRecording
  /\ recognition = NoRecognition

\* C15: an analysis requested on an empty transcript is skipped. In App.jsx
\* a stopRecording with nothing transcribed adds no record and leaves the
\* suggestions alone; in the alternate flow no invocation starts on an empty
\* transcript and no record has an empty text.
C15_Original ==
  [][/\ (Stops /\ transcript = <<>>) =>
          /\ sessionHistory' = sessionHistory
          /\ suggestions' = suggestions
          /\ transcript' = transcript
     /\ \A call \in calls' \ calls : call.transcript # <<>>
     /\ history' # history => history'[Len(history')].text # <<>>
    ]_vars

(* ------------------------------------------------------------------ *)
(* Properties of the reports                                           *)
(* ------------------------------------------------------------------ *)
\* the vocabulary in its order
C16_Vocabulary ==
  << <<"u", "h">>,
     <<"u", "m">>,
     <<"l", "i", "k", "e">>,
     <<"y", "o", "u", " ", "k", "n", "o", "w">>,
     <<"a", "c", "t", "u", "a", "l", "l", "y">>,
     <<"b", "a", "s", "i", "c", "a", "l", "l", "y">>,
     <<"l", "i", "t", "e", "r", "a", "l", "l", "y">> >>

\* the place of a message in the fixed order; 0 for a message without one
MessageRank(m) ==
  IF m.msg = "filler"
  THEN IF \E k \in 1..Len(C16_Vocabulary) : C16_Vocabulary[k] = m.word
       THEN CHOOSE k \in 1..Len(C16_Vocabulary) : C16_Vocabulary[k] = m.word
       ELSE 0
  ELSE IF m = LengthMsg THEN Len(C16_Vocabulary) + 1
  ELSE IF m = EndingMsg THEN Len(C16_Vocabulary) + 2
  ELSE IF m = VocabularyMsg THEN Len(C16_Vocabulary) + 3
  ELSE IF m = DurationMsg THEN Len(C16_Vocabulary) + 4
  ELSE IF m = AffirmationMsg THEN Len(C16_Vocabulary) + 5
  ELSE 0

\* C16: the feedback of generateSuggestions lists its messages in the fixed
\* order: the filler words in the order of the vocabulary, then length,
\* sentence ending, vocabulary tip and duration, each at most once; the
\* affirmation stands alone.
C16_MessageOrder ==
  Generated =>
    LET fb == result.feedback
    IN  /\ \A i \in 1..Len(fb) : MessageRank(fb[i]) > 0
        /\ \A i, j \in 1..Len(fb) :
             i < j => MessageRank(fb[i]) < MessageRank(fb[j])
        /\ Has(fb, AffirmationMsg) => Len(fb) = 1

\* a filler word last in the vocabulary stands in the text in front of an
\* earlier one, and both messages are followed by length, ending and
\* duration
C16_Witness ==
  /\ Generated
  /\ Len(result.feedback) = 5
  /\ result.feedback[1].msg = "filler"
  /\ result.feedback[2].msg = "filler"
  /\ result.feedback[5] = DurationMsg
  /\ MatchesAt(inText, result.feedback[2].word, 1)

\* C17: for a transcript as the alternate flow holds it (trimmed, not
\* empty) with n tokens and a filler count of f, the tone is "Hesitant"
\* exactly when 10 * f > n, otherwise "Confident" exactly when n > 15, and
\* otherwise "Neutral".
C17_Tone ==
  (Analysed /\ Trim(inText) = inText) =>
    LET n == TokenCount(inText)
        f == result.fillerCount
    IN  /\ result.tone \in {"Hesitant", "Confident", "Neutral"}
        /\ result.tone = "Hesitant" <=> 10 * f > n
        /\ result.tone = "Confident" <=> (10 * f <= n /\ n > 15)
        /\ result.tone = "Neutral" <=> (10 * f <= n /\ n <= 15)

\* ten tokens with one filler word among them: one tenth is not exceeded
C17_Witness ==
  /\ Analysed
  /\ Trim(inText) = inText
  /\ TokenCount(inText) = 10
  /\ result.fillerCount = 1
  /\ result.tone = "Neutral"

\* C18: in App.jsx at most one timer interval is active, and none while
\* isRecording is false; the timer changes only by a reset to 0 at the start
\* of a recording and by ticks during a recording, and the duration of a
\* record is the timer at its stop.
C18_Timer ==
  [][flow = "app" =>
       /\ Cardinality(intervals) <= 1 /\ Cardinality(intervals') <= 1
       /\ ~isRecording => intervals = {}
       /\ ~isRecording' => intervals' = {}
       /\ timer' # timer =>
            \/ ~isRecording /\ isRecording' /\ timer' = 0
            \/ isRecording /\ isRecording' /\ timer' = timer + 1
       /\ Stops => sessionHistory'[1].duration = timer
    ]_vars

\* a session without a tick recorded behind a session with one: the second
\* duration does not include the tick of the first
C18_Witness ==
  /\ flow = "app"
  /\ ~isRecording
  /\ intervals = {}
  /\ Len(sessionHistory) = 2
  /\ sessionHistory[1].duration = 0
  /\ sessionHistory[2].duration = MaxTimer

\* C19: the text of a record of App.jsx consists of results that the
\* recognition of its own session has delivered: it is the text of an
\* onresult event of that recognition, or empty when there was none; a result
\* that arrives while nothing is recording changes no record.
C19_Original ==
  [][/\ (Stops /\ recognition.state = "listening") =>
          \E i \in 1..(Len(recognition.results) + 1) :
            sessionHistory'[1].text = AppEventText(recognition.results, i)
     /\ (flow = "app" /\ ~isRecording /\ transcript' # transcript) =>
          sessionHistory' = sessionHistory
    ]_vars

\* C20: the displayed feedback agrees with the history. In App.jsx the
\* suggestions are empty while sessionHistory is, and otherwise the feedback
\* of its first, most recently added record; in the alternate flow the
\* feedback is null while history is empty, and otherwise the report of its
\* last, most recently added record.
C20_Agreement ==
  /\ flow = "app" =>
       IF sessionHistory = <<>> THEN suggestions = <<>>
       ELSE suggestions = sessionHistory[1].feedback
  /\ flow = "pro" =>
       IF history = <<>> THEN feedback = Null
       ELSE feedback = history[Len(history)].feedback

\* two overlapping analyses have completed, one record was lost, and the
\* report on display, with a grammar suggestion, is the one of the record
\* that is left
C20_Witness ==
  /\ flow = "pro"
  /\ now = 2
  /\ Len(history) = 1
  /\ history[1].time = 2
  /\ feedback # Null
  /\ feedback.grammarSuggestions # <<>>
  /\ consoleLog = 1

====
